---- MODULE Spec2Model ----
(***************************************************************************)
(* The navigation screen of MapboxRouteMapDemo as a state machine.         *)
(*                                                                         *)
(* Two variants of the screen exist in the repository:                     *)
(*   variant "A"  src/src/screen/MapScreen.tsx   (500 ms poll)             *)
(*   variant "B"  src/unnamed/part_000           (3000 ms poll)            *)
(* The variable `variant` is fixed by Init and selects the component that  *)
(* is mounted; every action is the whole of one handler (a UI callback, a  *)
(* timer callback or the continuation of an awaited promise) followed by   *)
(* the React render it causes and the effects that render runs.            *)
(*                                                                         *)
(* React semantics that the model keeps:                                   *)
(*  - a callback reads the state values captured when it was created, not  *)
(*    the values current when it runs (closures are explicit records);     *)
(*  - useCallback returns the previous closure while its dependencies are  *)
(*    identical; arrays and objects are compared by identity, so a state   *)
(*    setter called with a fresh array always counts as a change;          *)
(*  - state updates of one handler are batched into one render;            *)
(*  - refs (isMounted, locationInterval, isLocationRequestPending,         *)
(*    cameraRef) are read and written in place.                            *)
(*                                                                         *)
(* Coordinates are [lon, lat] pairs on one meridian; one unit of latitude  *)
(* is GridM metres of arc, so the haversine distance of two model points   *)
(* is GridM * |lat2 - lat1| metres.                                        *)
(***************************************************************************)
EXTENDS Integers, Sequences, FiniteSets, Bags, TLC

\* ------------------------------------------------------------------ bounds
MaxLat == 2                \* device latitudes are 0..MaxLat
GridM == 15                \* metres per unit of latitude
NumStepPool == 2           \* the provider draws route steps from this many steps
MaxRouteRequests == 2      \* directions requests in flight
MaxLocationRequests == 2   \* device location requests in flight
MaxSuggestionRequests == 1 \* geocoding requests in flight
MaxTicks == 2              \* poll ticks that reach the device
MaxStarts == 1             \* presses of Start
MaxKeys == 1               \* edits of the search text
MaxTouches == 1            \* drags of the map
MaxLongPool == 3            \* steps the provider draws from in a session of long routes
MaxSearchKeys == 2

\* ------------------------------------------------------- program constants
ThresholdM == 30           \* distanceToStep < 0.03 (km)
NavZoom == 18
StopZoomA == 16
StopZoomB == 12
StepZoomB == 16
FitPadding == 120

Null == <<>>

Coord(lat) == <<0, lat>>
Coords == {Coord(lat) : lat \in 0..MaxLat}

Abs(n) == IF n < 0 THEN 0 - n ELSE n

\* haversine on one meridian, in metres
calculateDistance(coord1, coord2) == GridM * Abs(coord2[2] - coord1[2])

\* distanceToStep < 0.03
WithinThreshold_Lax(location, stepCoord) ==
    calculateDistance(location, stepCoord) <= ThresholdM
WithinThreshold(location, stepCoord) ==
    calculateDistance(location, stepCoord) < ThresholdM

\* ------------------------------------------------------ directions provider
\* A route step: maneuver coordinate, distance (m), duration (s).
StepAt(k) == [coord |-> Coord(2 * (k - 1)), distance |-> 450 * k, duration |-> 1190 * k]

RECURSIVE SortedSeq(_)
SortedSeq(S) ==
    IF S = {} THEN <<>>
    ELSE LET m == CHOOSE x \in S : \A y \in S : x <= y
         IN <<StepAt(m)>> \o SortedSeq(S \ {m})

\* The step lists a directions response can carry (travel order).
RouteCatalogOf(n) == {SortedSeq(S) : S \in (SUBSET (1..n)) \ {{}}}
RouteCatalog == RouteCatalogOf(NumStepPool)

RECURSIVE SumDistance(_, _)
SumDistance(ss, i) ==
    IF i > Len(ss) THEN 0 ELSE ss[i].distance + SumDistance(ss, i + 1)

RECURSIVE SumDuration(_, _)
SumDuration(ss, i) ==
    IF i > Len(ss) THEN 0 ELSE ss[i].duration + SumDuration(ss, i + 1)

\* --------------------------------------------------------------- formatting
RECURSIVE Digits(_)
Digits(n) == IF n < 10 THEN <<n>> ELSE Digits(n \div 10) \o <<n % 10>>

\* n.toString().padStart(2, '0')
PadStart2(n) == IF n < 10 THEN <<0, n>> ELSE Digits(n)

\* formatDuration(minutes) with minutes = seconds / 60:
\*   hours = Math.floor(minutes / 60), mins = Math.round(minutes % 60)
formatDuration(seconds) ==
    LET hours == seconds \div 3600
        mins  == ((seconds % 3600) + 30) \div 60
    IN <<PadStart2(hours), PadStart2(mins)>>

\* (metres / 1000).toFixed(1) as <<integer part, tenths digit>>
toFixed1(metres) ==
    LET t == (metres + 50) \div 100 IN <<t \div 10, t % 10>>

\* `${Math.round(seconds / 60)} min`  (variant B)
roundMin(seconds) == Digits((seconds + 30) \div 60)

NullInfo ==
    [distance |-> Null, duration |-> Null,
     remainingDistance |-> Null, remainingDuration |-> Null]

\* ------------------------------------------------------------ search places
Places == {1, 2}
PlaceCoord(p) == Coord(IF p = 1 THEN 0 ELSE MaxLat)
SuggestionLists == {<<1, 2>>}
Queries == {"", "a"}
PlaceName(p) == IF p = 1 THEN "p1" ELSE "p2"

\* location.course as the device reports it at a latitude: negative (no course)
\* at latitude 0, due east elsewhere
CourseAt(lat) == IF lat = 0 THEN -1 ELSE 90

VARIABLES
    variant,                  \* "A" (MapScreen.tsx) or "B" (part_000)
    currentLocation, destination, route, steps, currentStepIndex,
    routeInfo, query, suggestions, isNavigating, loading,
    isMapInteracting, currentHeading,               \* React state
    isMounted, isLocationRequestPending, locationInterval, cameraRef, \* refs
    intervals,                \* the repeating timers setInterval made and nobody cleared
    updateNavigationMemo,     \* the closure useCallback holds for updateNavigation
    locationRequests,         \* device location requests in flight, with continuations
    routeRequests,            \* directions requests in flight, with captured values
    suggestionRequests,       \* geocoding requests in flight
    out,                      \* what the last handler asked of its collaborators
    last,                     \* the last handler that ran
    budget                    \* events the environment may still produce

vars == <<variant, currentLocation, destination, route, steps, currentStepIndex,
          routeInfo, query, suggestions, isNavigating, loading, isMapInteracting,
          currentHeading, isMounted, isLocationRequestPending, locationInterval,
          cameraRef, intervals, updateNavigationMemo, locationRequests,
          routeRequests, suggestionRequests, out, last, budget>>

\* ------------------------------------------------------------ working state
\* The state as one record, so that a handler is a function from state to state.
\* stepsSet / locSet / destSet record that the setter was called with a fresh
\* array in the handler being run (an identity change for hook dependencies).
Cur ==
    [variant |-> variant,
     currentLocation |-> currentLocation, destination |-> destination,
     route |-> route, steps |-> steps, currentStepIndex |-> currentStepIndex,
     routeInfo |-> routeInfo, query |-> query, suggestions |-> suggestions,
     isNavigating |-> isNavigating, loading |-> loading,
     isMapInteracting |-> isMapInteracting, currentHeading |-> currentHeading,
     isMounted |-> isMounted, isLocationRequestPending |-> isLocationRequestPending,
     locationInterval |-> locationInterval, cameraRef |-> cameraRef,
     intervals |-> intervals, last |-> last,
     updateNavigationMemo |-> updateNavigationMemo,
     locationRequests |-> locationRequests, routeRequests |-> routeRequests,
     suggestionRequests |-> suggestionRequests, budget |-> budget,
     out |-> <<>>, stepsSet |-> FALSE, locSet |-> FALSE, destSet |-> FALSE]

\* the requests in flight stay within the bounds
Fits(n) ==
    /\ BagCardinality(n.routeRequests) <= MaxRouteRequests
    /\ Len(n.locationRequests) <= MaxLocationRequests
    /\ n.suggestionRequests <= MaxSuggestionRequests

Apply(n) ==
    /\ Fits(n)
    /\ variant' = n.variant
    /\ currentLocation' = n.currentLocation
    /\ destination' = n.destination
    /\ route' = n.route
    /\ steps' = n.steps
    /\ currentStepIndex' = n.currentStepIndex
    /\ routeInfo' = n.routeInfo
    /\ query' = n.query
    /\ suggestions' = n.suggestions
    /\ isNavigating' = n.isNavigating
    /\ loading' = n.loading
    /\ isMapInteracting' = n.isMapInteracting
    /\ currentHeading' = n.currentHeading
    /\ isMounted' = n.isMounted
    /\ isLocationRequestPending' = n.isLocationRequestPending
    /\ locationInterval' = n.locationInterval
    /\ cameraRef' = n.cameraRef
    /\ intervals' = n.intervals
    /\ last' = n.last
    /\ updateNavigationMemo' = n.updateNavigationMemo
    /\ locationRequests' = n.locationRequests
    /\ routeRequests' = n.routeRequests
    /\ suggestionRequests' = n.suggestionRequests
    /\ out' = n.out
    /\ budget' = n.budget

RemoveAt(s, i) == SubSeq(s, 1, i - 1) \o SubSeq(s, i + 1, Len(s))

\* requests and commands to the external collaborators
Cmd(op, a, b, c) == [op |-> op, a |-> a, b |-> b, c |-> c]
setCamera(center, bearing, zoom) == Cmd("setCamera", center, <<bearing>>, zoom)
fitBounds(start, end) ==
    Cmd("fitBounds",
        <<0, IF start[2] < end[2] THEN start[2] ELSE end[2]>>,
        <<0, IF start[2] < end[2] THEN end[2] ELSE start[2]>>,
        FitPadding)

\* locationInterval.current is null (<<>>), the handle of the newest timer of
\* `intervals` (Live), or the handle of a timer that was cleared (Cleared)
Live == <<TRUE>>
Cleared == <<FALSE>>

\* clearInterval(locationInterval.current)
clearInterval(w) ==
    IF w.locationInterval = Live
    THEN [w EXCEPT !.intervals = SubSeq(@, 1, Len(@) - 1), !.locationInterval = Cleared]
    ELSE w

\* locationInterval.current = setInterval(callback, period)
setInterval(w, callback) ==
    [w EXCEPT !.intervals = Append(@, callback), !.locationInterval = Live]

Ev(op, who, ok) == [op |-> op, who |-> who, ok |-> ok]

\* the closure of the first render
FirstMemo == [steps |-> <<>>, idx |-> 0, loc |-> Null, heading |-> 0, nav |-> FALSE]
NoTimer == [isMapInteracting |-> FALSE, un |-> FirstMemo]

\* ------------------------------------------------- variant A: MapScreen.tsx
\* fetchRoute(start, end) of a render whose isNavigating is nav
fetchRoute(w, start, end, nav) ==
    IF start = Null \/ end = Null \/ ~w.isMounted THEN w
    ELSE [w EXCEPT
            !.routeRequests = @ (+) SetToBag({[start |-> start, end |-> end, nav |-> nav]}),
            !.out = Append(@, Cmd("fetchRoute", start, end, 0))]

getCurrentPositionSafe_NoGuard(w, who, tcl) ==
    [w EXCEPT
       !.isLocationRequestPending = TRUE,
       !.locationRequests = Append(@, [who |-> who, timer |-> tcl]),
       !.out = Append(@, Cmd("getCurrentPosition", Null, Null, 0))]

\* getCurrentPositionSafe up to its await; the continuation is LocationResolve
getCurrentPositionSafe(w, who, tcl) ==
    IF w.isLocationRequestPending THEN w
    ELSE [w EXCEPT
            !.isLocationRequestPending = TRUE,
            !.locationRequests = Append(@, [who |-> who, timer |-> tcl]),
            !.out = Append(@, Cmd("getCurrentPosition", Null, Null, 0))]

\* handleStepChange of the render that cl was captured in
handleStepChange(w, cl, newIndex) ==
    IF newIndex < 0 \/ newIndex >= Len(cl.steps) \/ cl.loc = Null \/ ~w.cameraRef
    THEN w
    ELSE LET stepCoords == cl.steps[newIndex + 1].coord
             w1 == [w EXCEPT
                      !.currentStepIndex = newIndex,
                      !.out = Append(@, setCamera(stepCoords, cl.heading, NavZoom))]
         IN fetchRoute(w1, cl.loc, stepCoords, cl.nav)

stopNavigation_KeepsSteps(w) ==
    IF ~w.isMounted THEN w
    ELSE getCurrentPositionSafe(
           [w EXCEPT
              !.isNavigating = FALSE,
              !.currentStepIndex = 0,
              !.route = Null,
              !.routeInfo = NullInfo,
              !.intervals = clearInterval(w).intervals,
              !.locationInterval = Null],
           "stop", NoTimer)

stopNavigation(w) ==
    IF ~w.isMounted THEN w
    ELSE getCurrentPositionSafe(
           [w EXCEPT
              !.isNavigating = FALSE,
              !.currentStepIndex = 0,
              !.route = Null,
              !.steps = <<>>,
              !.stepsSet = TRUE,
              !.routeInfo = NullInfo,
              !.intervals = clearInterval(w).intervals,
              !.locationInterval = Null],
           "stop", NoTimer)

\* steps[currentStepIndex] is undefined: reading .maneuver throws
ThrowsOnStep(cl) == Len(cl.steps) > 0 /\ cl.idx >= Len(cl.steps)

\* updateNavigation of the render that cl was captured in
updateNavigation(w, cl, location) ==
    IF Len(cl.steps) = 0 \/ ~w.cameraRef \/ ~w.isMounted THEN w
    ELSE IF ThrowsOnStep(cl) THEN w
    ELSE LET distanceToStep == calculateDistance(location, cl.steps[cl.idx + 1].coord)
             w1 == [w EXCEPT
                      !.routeInfo.remainingDistance =
                          toFixed1(SumDistance(cl.steps, cl.idx + 1)),
                      !.routeInfo.remainingDuration =
                          formatDuration(SumDuration(cl.steps, cl.idx + 1))]
         IN IF WithinThreshold(location, cl.steps[cl.idx + 1].coord)
               /\ cl.idx < Len(cl.steps) - 1
            THEN handleStepChange(w1, cl, cl.idx + 1)
            ELSE IF WithinThreshold(location, cl.steps[cl.idx + 1].coord)
            THEN stopNavigation(w1)
            ELSE w1

\* startNavigationTracking of a render: the interval callback captures
\* isMapInteracting and updateNavigation
startNavigationTracking_NoClear(w) ==
    setInterval(w, [isMapInteracting |-> w.isMapInteracting,
                    un |-> w.updateNavigationMemo])

startNavigationTracking(w) ==
    setInterval(clearInterval(w),
                [isMapInteracting |-> w.isMapInteracting, un |-> w.updateNavigationMemo])

tickA_NoDragCheck(w, tcl) ==
    IF ~w.isMounted THEN w ELSE getCurrentPositionSafe(w, "tick", tcl)

\* the interval callback up to its await
tickA(w, tcl) ==
    IF tcl.isMapInteracting \/ ~w.isMounted THEN w
    ELSE getCurrentPositionSafe(w, "tick", tcl)

\* the navigation panel reads steps[currentStepIndex].maneuver
RenderThrows(w) ==
    w.isNavigating /\ Len(w.steps) > 0 /\ w.currentStepIndex >= Len(w.steps)

\* cleanup of the mount effect
Teardown(w) ==
    [clearInterval(w) EXCEPT !.isMounted = FALSE, !.cameraRef = FALSE]

\* RenderA with a fetchRoute whose identity does not follow isNavigating
RenderA_StableFetchRoute(old, w) ==
    IF ~w.isMounted THEN w
    ELSE IF RenderThrows(w)
    THEN [Teardown(w) EXCEPT !.out = Append(@, Cmd("renderError", Null, Null, 0))]
    ELSE
    LET navChanged == w.isNavigating # old.isNavigating
        memoChanged == w.stepsSet \/ w.currentStepIndex # old.currentStepIndex
        memo == IF memoChanged
                THEN [steps |-> w.steps, idx |-> w.currentStepIndex,
                      loc |-> w.currentLocation, heading |-> w.currentHeading,
                      nav |-> w.isNavigating]
                ELSE w.updateNavigationMemo
        w1 == [w EXCEPT !.updateNavigationMemo = memo, !.cameraRef = ~w.loading]
        ready == w1.currentLocation # Null /\ w1.destination # Null
        w2 == IF (w.locSet \/ w.destSet) /\ ready
              THEN fetchRoute(w1, w1.currentLocation, w1.destination, w1.isNavigating)
              ELSE w1
        trackChanged == navChanged \/ w.locSet \/ w.destSet \/ memoChanged
                        \/ w.isMapInteracting # old.isMapInteracting
    IN IF trackChanged /\ w2.isNavigating /\ ready
       THEN startNavigationTracking(w2)
       ELSE w2

\* The render after a handler of variant A, and the effects it runs:
\* updateNavigation is re-created when steps or currentStepIndex changed; the
\* route effect and the tracking effect run when one of their dependencies changed.
RenderA(old, w) ==
    IF ~w.isMounted THEN w
    ELSE IF RenderThrows(w)
    THEN [Teardown(w) EXCEPT !.out = Append(@, Cmd("renderError", Null, Null, 0))]
    ELSE
    LET navChanged == w.isNavigating # old.isNavigating
        memoChanged == w.stepsSet \/ w.currentStepIndex # old.currentStepIndex
        memo == IF memoChanged
                THEN [steps |-> w.steps, idx |-> w.currentStepIndex,
                      loc |-> w.currentLocation, heading |-> w.currentHeading,
                      nav |-> w.isNavigating]
                ELSE w.updateNavigationMemo
        w1 == [w EXCEPT !.updateNavigationMemo = memo, !.cameraRef = ~w.loading]
        ready == w1.currentLocation # Null /\ w1.destination # Null
        w2 == IF (w.locSet \/ w.destSet \/ navChanged) /\ ready
              THEN fetchRoute(w1, w1.currentLocation, w1.destination, w1.isNavigating)
              ELSE w1
        trackChanged == navChanged \/ w.locSet \/ w.destSet \/ memoChanged
                        \/ w.isMapInteracting # old.isMapInteracting
    IN IF trackChanged /\ w2.isNavigating /\ ready
       THEN startNavigationTracking(w2)
       ELSE w2

startNavigationA_NoFlag(w) ==
    IF w.currentLocation # Null /\ w.destination # Null /\ w.cameraRef
    THEN [w EXCEPT
            !.currentStepIndex = 0,
            !.out = Append(@, setCamera(w.currentLocation, w.currentHeading, NavZoom))]
    ELSE w

startNavigationA(w) ==
    IF w.currentLocation # Null /\ w.destination # Null /\ w.cameraRef
    THEN [w EXCEPT
            !.isNavigating = TRUE,
            !.currentStepIndex = 0,
            !.out = Append(@, setCamera(w.currentLocation, w.currentHeading, NavZoom))]
    ELSE w

\* routeData.geometry: the line through the maneuver points
Geometry(ss) == [i \in 1..Len(ss) |-> ss[i].coord]

\* continuation of fetchRoute after its awaits.  kind: "ok" (a route with steps
\* ss), "nolegs" (a route object without legs: reading legs[0] throws after the
\* first two setters ran), "fail" (network error, bad body or no routes)
fetchRouteResponse_NoMountCheck(w, req, kind, ss) ==
    IF kind = "fail" THEN w
    ELSE [w EXCEPT !.route = Geometry(ss), !.steps = ss, !.stepsSet = TRUE]

fetchRouteResponse(w, req, kind, ss) ==
    IF kind = "fail" \/ ~w.isMounted THEN w
    ELSE LET w1 == [w EXCEPT
                      !.route = Geometry(ss),
                      !.routeInfo =
                          [distance |-> toFixed1(SumDistance(ss, 1)),
                           duration |-> formatDuration(SumDuration(ss, 1)),
                           remainingDistance |-> toFixed1(SumDistance(ss, 1)),
                           remainingDuration |-> formatDuration(SumDuration(ss, 1))]]
             w2 == [w1 EXCEPT !.steps = ss, !.stepsSet = TRUE]
         IN IF kind = "nolegs" THEN w1
            ELSE IF ~req.nav /\ w.cameraRef
            THEN [w2 EXCEPT !.out = Append(@, fitBounds(req.start, req.end))]
            ELSE w2

\* continuation of getCurrentLocation (the initial fix)
getCurrentLocation(w, ok, coords, heading) ==
    IF ok /\ w.isMounted
    THEN [w EXCEPT !.currentLocation = coords, !.locSet = TRUE,
                   !.currentHeading = heading, !.loading = FALSE]
    ELSE w

tickContinuation_NoNullCheck(w, tcl, ok, coords, heading) ==
    IF ~w.isMounted THEN w
    ELSE LET w1 == [w EXCEPT !.currentLocation = coords, !.locSet = TRUE,
                             !.currentHeading = heading]
             w2 == updateNavigation(w1, tcl.un, coords)
         IN IF ThrowsOnStep(tcl.un) /\ w1.cameraRef THEN w2
            ELSE IF w2.cameraRef
            THEN [w2 EXCEPT !.out = Append(@, setCamera(coords, heading, NavZoom))]
            ELSE w2

\* continuation of the interval callback after await getCurrentPositionSafe()
tickContinuation(w, tcl, ok, coords, heading) ==
    IF ~ok \/ ~w.isMounted THEN w
    ELSE LET w1 == [w EXCEPT !.currentLocation = coords, !.locSet = TRUE,
                             !.currentHeading = heading]
             w2 == updateNavigation(w1, tcl.un, coords)
         IN IF ThrowsOnStep(tcl.un) /\ w1.cameraRef THEN w2
            ELSE IF w2.cameraRef
            THEN [w2 EXCEPT !.out = Append(@, setCamera(coords, heading, NavZoom))]
            ELSE w2

\* continuation of stopNavigation after await getCurrentPositionSafe()
stopContinuation(w, ok, coords, heading) ==
    IF ok /\ w.isMounted /\ w.cameraRef
    THEN [w EXCEPT !.currentLocation = coords, !.locSet = TRUE,
                   !.currentHeading = heading,
                   !.out = Append(@, setCamera(coords, heading, StopZoomA))]
    ELSE w

fetchSuggestions_NoEmptyCheck(w, input) ==
    IF ~w.isMounted
    THEN [w EXCEPT !.suggestions = <<>>]
    ELSE [w EXCEPT !.suggestionRequests = @ + 1,
                   !.out = Append(@, Cmd("geocode", Null, Null, 0))]

\* fetchSuggestions up to its await
fetchSuggestions(w, input) ==
    IF input = "" \/ ~w.isMounted
    THEN [w EXCEPT !.suggestions = <<>>]
    ELSE [w EXCEPT !.suggestionRequests = @ + 1,
                   !.out = Append(@, Cmd("geocode", Null, Null, 0))]

\* continuation of fetchSuggestions: ok with the places of data.features
fetchSuggestionsResponse(w, ok, places) ==
    IF ok /\ w.isMounted THEN [w EXCEPT !.suggestions = places] ELSE w

\* onChangeText of the search box
onChangeText(w, text) == fetchSuggestions([w EXCEPT !.query = text], text)

onPressSuggestion_KeepsList(w, p) ==
    IF w.isMounted
    THEN [w EXCEPT !.query = PlaceName(p), !.destination = PlaceCoord(p),
                   !.destSet = TRUE]
    ELSE w

\* onPress of a suggestion row
onPressSuggestion(w, p) ==
    IF w.isMounted
    THEN [w EXCEPT !.query = PlaceName(p), !.destination = PlaceCoord(p),
                   !.destSet = TRUE, !.suggestions = <<>>]
    ELSE w

HeadingOf(course) == IF course >= 0 THEN course ELSE 0

\* --------------------------------------------------- variant B: part_000
\* forward azimuth of two points of one meridian: north, or south
getBearing(start, end) == IF end[2] < start[2] THEN 180 ELSE 0

setCameraB(center, zoom) == Cmd("setCamera", center, Null, zoom)
setCameraHeading(center, heading, zoom) == Cmd("setCamera", center, <<heading>>, zoom)

\* the values a function of the current render of variant B reads
RenderClosure(w) ==
    [steps |-> w.steps, idx |-> w.currentStepIndex, loc |-> w.currentLocation,
     heading |-> 0, nav |-> TRUE]

\* handleNextStep of the render that cl was captured in
handleNextStep(w, cl, stepIndex) ==
    IF stepIndex >= Len(cl.steps) \/ cl.loc = Null \/ ~w.cameraRef \/ ~w.isMounted
    THEN w
    ELSE LET stepDestination == cl.steps[stepIndex + 1].coord
             w1 == fetchRoute([w EXCEPT !.currentStepIndex = stepIndex],
                              cl.loc, stepDestination, TRUE)
         IN [w1 EXCEPT !.out = Append(@, setCameraB(stepDestination, StepZoomB))]

\* stopNavigation up to its await
stopNavigationB(w) ==
    IF ~w.isMounted THEN w
    ELSE [w EXCEPT
            !.isNavigating = FALSE,
            !.currentStepIndex = 0,
            !.route = Null,
            !.steps = <<>>,
            !.stepsSet = TRUE,
            !.routeInfo = NullInfo,
            !.intervals = clearInterval(w).intervals,
            !.locationInterval = clearInterval(w).locationInterval,
            !.locationRequests = Append(@, [who |-> "stop", timer |-> NoTimer]),
            !.out = Append(@, Cmd("getCurrentPosition", Null, Null, 0))]

\* updateNavigation of the render that cl was captured in
updateNavigationB(w, cl, location) ==
    IF Len(cl.steps) = 0 \/ ~w.cameraRef \/ ~w.isMounted THEN w
    ELSE IF ThrowsOnStep(cl) THEN w
    ELSE LET near == WithinThreshold(location, cl.steps[cl.idx + 1].coord)
             w1 == IF near /\ cl.idx < Len(cl.steps) - 1
                   THEN handleNextStep(w, cl, cl.idx + 1)
                   ELSE IF near THEN stopNavigationB(w) ELSE w
         IN [w1 EXCEPT !.out = Append(@,
                setCameraHeading(location,
                                 getBearing(location, cl.steps[cl.idx + 1].coord),
                                 StepZoomB))]

\* startNavigationTracking: memoized with no dependencies, so the interval
\* callback calls the updateNavigation of the first render
startNavigationTrackingB(w) == setInterval(clearInterval(w), NoTimer)

\* the interval callback up to its await
tickB(w, tcl) ==
    [w EXCEPT
       !.locationRequests = Append(@, [who |-> "tick", timer |-> tcl]),
       !.out = Append(@, Cmd("getCurrentPosition", Null, Null, 0))]

tickContinuationB(w, tcl, ok, coords) ==
    IF ~ok \/ ~w.isMounted THEN w
    ELSE updateNavigationB([w EXCEPT !.currentLocation = coords, !.locSet = TRUE],
                           tcl.un, coords)

stopContinuationB(w, ok, coords) ==
    IF ~ok \/ ~w.isMounted THEN w
    ELSE LET w1 == [w EXCEPT !.currentLocation = coords, !.locSet = TRUE]
         IN IF w.cameraRef
            THEN [w1 EXCEPT !.out = Append(@, setCameraB(coords, StopZoomB))]
            ELSE w1

getCurrentLocationB(w, ok, coords) ==
    IF ~w.isMounted THEN w
    ELSE IF ok
    THEN [w EXCEPT !.currentLocation = coords, !.locSet = TRUE, !.loading = FALSE]
    ELSE [w EXCEPT !.loading = FALSE]

startNavigationB_NoCheck(w) ==
    IF w.isMounted
    THEN fetchRoute([w EXCEPT !.isNavigating = TRUE, !.currentStepIndex = 0],
                    w.currentLocation, w.destination, TRUE)
    ELSE w

startNavigationB(w) ==
    IF w.currentLocation # Null /\ w.destination # Null /\ w.isMounted
    THEN fetchRoute([w EXCEPT !.isNavigating = TRUE, !.currentStepIndex = 0],
                    w.currentLocation, w.destination, TRUE)
    ELSE w

fetchRouteResponseB(w, req, kind, ss) ==
    IF kind = "fail" \/ ~w.isMounted THEN w
    ELSE LET w1 == [w EXCEPT
                      !.route = Geometry(ss),
                      !.routeInfo.distance = toFixed1(SumDistance(ss, 1)),
                      !.routeInfo.duration = roundMin(SumDuration(ss, 1))]
         IN IF kind = "nolegs" THEN w1
            ELSE [w1 EXCEPT !.steps = ss, !.stepsSet = TRUE]

\* The render after a handler of variant B and its one effect
RenderB(old, w) ==
    IF ~w.isMounted THEN w
    ELSE IF RenderThrows(w)
    THEN [Teardown(w) EXCEPT !.out = Append(@, Cmd("renderError", Null, Null, 0))]
    ELSE
    LET w1 == [w EXCEPT !.cameraRef = ~w.loading]
        changed == w.locSet \/ w.destSet \/ w.isNavigating # old.isNavigating
    IN IF changed /\ w1.currentLocation # Null /\ w1.destination # Null /\ w1.isNavigating
       THEN startNavigationTrackingB(
                fetchRoute(w1, w1.currentLocation, w1.destination, TRUE))
       ELSE w1

Render(old, w) == IF w.variant = "A" THEN RenderA(old, w) ELSE RenderB(old, w)

\* ------------------------------------------------------------------ actions
Visible == isMounted /\ ~loading

\* the interval callback runs up to its first await
\* (counted: a tick that reaches the device is taken from budget.ticks)
TimerTick(counted) ==
    \E k \in 1..Len(intervals) :
       LET tcl == intervals[k]
           n == IF variant = "B" THEN tickB(Cur, tcl) ELSE tickA(Cur, tcl)
           asked == Len(n.locationRequests) > Len(locationRequests)
       IN /\ (asked /\ counted) => budget.ticks > 0
          /\ Apply([n EXCEPT !.budget.ticks = IF asked /\ counted THEN @ - 1 ELSE @,
                             !.last = Ev("TimerFire", "tick", asked)])

TimerFire == TimerTick(TRUE)

\* GetLocation.getCurrentPosition settles: the awaiting function continues
LocationResult(i, ok, lat) ==
           LET req == locationRequests[i]
               coords == Coord(lat)
               heading == HeadingOf(CourseAt(lat))
               \* finally { isLocationRequestPending.current = false }
               w == [Cur EXCEPT !.locationRequests = RemoveAt(@, i),
                                !.isLocationRequestPending = FALSE]
               n == IF variant = "A"
                    THEN IF req.who = "init" THEN getCurrentLocation(w, ok, coords, heading)
                         ELSE IF req.who = "tick"
                         THEN tickContinuation(w, req.timer, ok, coords, heading)
                         ELSE stopContinuation(w, ok, coords, heading)
                    ELSE IF req.who = "init" THEN getCurrentLocationB(w, ok, coords)
                         ELSE IF req.who = "tick"
                         THEN tickContinuationB(w, req.timer, ok, coords)
                         ELSE stopContinuationB(w, ok, coords)
           IN Render(Cur, [n EXCEPT !.last = Ev("LocationResolve", req.who, ok)])

LocationResolveWith(i, ok, lat) == Apply(LocationResult(i, ok, lat))

LocationResolve ==
    \E i \in 1..Len(locationRequests), ok \in BOOLEAN, lat \in 0..MaxLat :
        /\ ~ok => lat = 0
        /\ LocationResolveWith(i, ok, lat)

\* the directions request settles
RouteResult(req, kind, ss) ==
    LET w == [Cur EXCEPT !.routeRequests = @ (-) SetToBag({req}),
                         !.last = Ev("RouteResolve", kind, kind = "ok")]
    IN Render(Cur, IF variant = "A"
                   THEN fetchRouteResponse(w, req, kind, ss)
                   ELSE fetchRouteResponseB(w, req, kind, ss))

RouteResolveWith(req, kind, ss) == Apply(RouteResult(req, kind, ss))

RouteResolve ==
    \E req \in BagToSet(routeRequests), kind \in {"ok", "nolegs", "fail"},
       ss \in RouteCatalogOf(budget.pool) :
        /\ kind = "fail" => ss = <<StepAt(1)>>
        /\ RouteResolveWith(req, kind, ss)

\* the Start button (shown while not navigating, disabled without a destination)
StartPress ==
    /\ Visible /\ ~isNavigating /\ destination # Null
    /\ budget.starts > 0
    /\ LET w == [Cur EXCEPT !.budget.starts = @ - 1, !.last = Ev("StartPress", "", TRUE)]
       IN Apply(Render(Cur, IF variant = "A" THEN startNavigationA(w)
                            ELSE startNavigationB(w)))

\* the Stop button (variant B shows it only inside the navigation panel)
StopPress ==
    /\ Visible /\ isNavigating
    /\ variant = "B" => Len(steps) > 0
    /\ LET w == [Cur EXCEPT !.last = Ev("StopPress", "", TRUE)]
       IN Apply(Render(Cur, IF variant = "A" THEN stopNavigation(w)
                            ELSE stopNavigationB(w)))

\* variant B: a tap on the navigation panel
NextStepPress ==
    /\ variant = "B" /\ Visible /\ isNavigating
    /\ Len(steps) > 0 /\ currentStepIndex < Len(steps) - 1
    /\ LET w == [Cur EXCEPT !.last = Ev("NextStepPress", "", TRUE)]
       IN Apply(Render(Cur, handleNextStep(w, RenderClosure(Cur), currentStepIndex + 1)))

\* variant A: onTouchStart / onTouchEnd of the map
TouchStart ==
    /\ variant = "A" /\ Visible /\ ~isMapInteracting
    /\ budget.touches > 0
    /\ Apply(Render(Cur, [Cur EXCEPT !.isMapInteracting = TRUE, !.budget.touches = @ - 1,
                                     !.last = Ev("TouchStart", "", TRUE)]))

TouchEnd ==
    /\ variant = "A" /\ Visible /\ isMapInteracting
    /\ Apply(Render(Cur, [Cur EXCEPT !.isMapInteracting = FALSE,
                                     !.last = Ev("TouchEnd", "", TRUE)]))

\* the search box (variant A: editable = !isNavigating)
\* (last.ok of this event: a suggestion list was showing when the text changed)
ChangeTextWith(text) ==
    /\ Visible
    /\ variant = "A" => ~isNavigating
    /\ budget.keys > 0
    /\ Apply(Render(Cur, onChangeText([Cur EXCEPT !.budget.keys = @ - 1,
                                                  !.last = Ev("ChangeText", text,
                                                              suggestions # <<>>)],
                                       text)))

ChangeText == \E text \in Queries : ChangeTextWith(text)

\* the geocoding request settles
SuggestionsResolve ==
    /\ suggestionRequests > 0
    /\ \E ok \in BOOLEAN, places \in SuggestionLists :
        /\ ~ok => places = <<1, 2>>
        /\ LET w == [Cur EXCEPT !.suggestionRequests = @ - 1,
                                !.last = Ev("SuggestionsResolve", "", ok)]
           IN Apply(Render(Cur, fetchSuggestionsResponse(w, ok, places)))

\* a tap on a row of the suggestion list
PressSuggestionWith(k) ==
    /\ Visible
    /\  LET again == destination = PlaceCoord(suggestions[k])
                     /\ query = PlaceName(suggestions[k])
            w == [Cur EXCEPT !.last = Ev("PressSuggestion",
                                         IF again THEN "again" ELSE "", TRUE)]
        IN Apply(Render(Cur, onPressSuggestion(w, suggestions[k])))

PressSuggestion == \E k \in 1..Len(suggestions) : PressSuggestionWith(k)

\* the screen is removed: the cleanup of the mount effect runs
Unmount ==
    /\ isMounted
    /\ Apply(Teardown([Cur EXCEPT !.last = Ev("Unmount", "", TRUE)]))

\* what the user, the timer and the directions provider may still do: a session
\* of navigation with one search, or a session spent on the search box, before
\* and after Start
Budgets ==
    {[ticks |-> MaxTicks, starts |-> MaxStarts, keys |-> MaxKeys, touches |-> MaxTouches,
      pool |-> NumStepPool],
     [ticks |-> 0, starts |-> MaxStarts, keys |-> MaxSearchKeys, touches |-> 0,
      pool |-> NumStepPool]}

\* a session of navigation on routes of up to MaxLongPool steps
LongBudget ==
    [ticks |-> MaxTicks, starts |-> MaxStarts, keys |-> MaxKeys, touches |-> 0,
     pool |-> MaxLongPool]

\* the state after the first render of one of the files vs, with a budget of bs
InitFor(vs, bs) ==
    /\ variant \in vs
    /\ currentLocation = Null /\ destination = Null /\ route = Null
    /\ steps = <<>> /\ currentStepIndex = 0 /\ routeInfo = NullInfo
    /\ query = "" /\ suggestions = <<>> /\ isNavigating = FALSE /\ loading = TRUE
    /\ isMapInteracting = FALSE /\ currentHeading = 0
    /\ isMounted = TRUE /\ locationInterval = Null /\ cameraRef = FALSE
    /\ intervals = <<>> /\ last = Ev("mount", "", TRUE)
    /\ updateNavigationMemo = FirstMemo
    /\ routeRequests = EmptyBag /\ suggestionRequests = 0 /\ out = <<>>
    /\ budget \in bs
    \* the mount effect asks for the first fix, unless the permission was refused
    /\ \E granted \in BOOLEAN :
        /\ isLocationRequestPending = (granted /\ variant = "A")
        /\ locationRequests = IF granted THEN <<[who |-> "init", timer |-> NoTimer]>> ELSE <<>>

Init == InitFor({"A", "B"}, Budgets)

Next ==
    \/ TimerFire \/ LocationResolve \/ RouteResolve
    \/ StartPress \/ StopPress \/ NextStepPress \/ TouchStart \/ TouchEnd
    \/ ChangeText \/ SuggestionsResolve \/ PressSuggestion
    \/ Unmount

Spec == Init /\ [][Next]_vars

\* MapScreen.tsx on long routes, the map left alone and the screen kept open
InitLong == InitFor({"A"}, {LongBudget})

NextLong ==
    \/ TimerFire \/ LocationResolve \/ RouteResolve
    \/ StartPress \/ StopPress
    \/ ChangeText \/ SuggestionsResolve \/ PressSuggestion

SpecLong == InitLong /\ [][NextLong]_vars

\* MapScreen.tsx with a timer that keeps firing, a device that reports every
\* fix of a tick within the threshold of the maneuver of the step that is
\* active when it reports, and a directions provider that always answers with
\* a route; nobody presses Stop or leaves the screen
LiveBudget ==
    [ticks |-> 0, starts |-> MaxStarts, keys |-> MaxKeys, touches |-> 0,
     pool |-> NumStepPool]

InitLive == InitFor({"A"}, {LiveBudget})

TimerFireAlways == TimerTick(FALSE)

NearManeuver(i, lat) ==
    (/\ locationRequests[i].who = "tick" /\ isNavigating
     /\ Len(steps) > 0 /\ currentStepIndex < Len(steps))
    => WithinThreshold(Coord(lat), steps[currentStepIndex + 1].coord)

LocationResolveNear ==
    \E i \in 1..Len(locationRequests), lat \in 0..MaxLat :
        /\ NearManeuver(i, lat)
        /\ LocationResolveWith(i, TRUE, lat)

\* ENABLED <<LocationResolveNear>>_vars and ENABLED <<RouteResolveOk>>_vars
\* (either step removes the request it settles, so it changes vars)
CanLocationResolveNear ==
    \E i \in 1..Len(locationRequests), lat \in 0..MaxLat :
        NearManeuver(i, lat) /\ Fits(LocationResult(i, TRUE, lat))

CanRouteResolveOk ==
    \E req \in BagToSet(routeRequests), ss \in RouteCatalogOf(budget.pool) :
        Fits(RouteResult(req, "ok", ss))

RouteResolveOk ==
    \E req \in BagToSet(routeRequests), ss \in RouteCatalogOf(budget.pool) :
        RouteResolveWith(req, "ok", ss)

NextLive ==
    \/ TimerFireAlways \/ LocationResolveNear \/ RouteResolveOk
    \/ StartPress
    \/ ChangeText \/ SuggestionsResolve \/ PressSuggestion

\* the timer fires whenever it stays able to; a device request and a
\* directions request that stay able to settle do settle (weak fairness of
\* LocationResolveNear and of RouteResolveOk, with ENABLED written as the
\* state predicate it equals and the step recognised by the event it records)
SpecLive ==
    /\ InitLive /\ [][NextLive]_vars
    /\ WF_vars(TimerFireAlways)
    /\ ([]<>(~CanLocationResolveNear) \/ []<><<last'.op = "LocationResolve">>_vars)
    /\ ([]<>(~CanRouteResolveOk) \/ []<><<last'.op = "RouteResolve">>_vars)


\* ------------------------------------------------------------------ claims
HasCamera(o, center) ==
    \E j \in 1..Len(o) : o[j].op = "setCamera" /\ o[j].a = center

\* C1: whenever a route exists (steps is non-empty) the active step index is a
\* valid index of steps.
C1_IndexInRange ==
    (variant = "A" /\ steps # <<>>) =>
        (0 <= currentStepIndex /\ currentStepIndex < Len(steps))

\* C2: every successful route response applied while mounted replaces route and
\* steps and leaves the active step index at 0.
C2_FetchResetsIndex ==
    [][\A req \in BagToSet(routeRequests), ss \in RouteCatalog :
          (isMounted /\ RouteResolveWith(req, "ok", ss)) =>
              (route' = Geometry(ss) /\ steps' = ss /\ currentStepIndex' = 0)]_vars

\* C3: while navigating there is a route and a destination.
C3_NavigatingHasRoute ==
    isNavigating => (route # Null /\ destination # Null)

\* C4: a poll tick whose fix is within 30 m of the active step, which is not the
\* last, advances the index by one, recenters the camera on the new step and
\* keeps navigating.
C4_TickAdvances ==
    [][\A i \in 1..Len(locationRequests), lat \in 0..MaxLat :
          (/\ variant = "A" /\ isMounted /\ isNavigating
           /\ locationRequests[i].who = "tick"
           /\ Len(steps) > 0 /\ currentStepIndex < Len(steps) - 1
           /\ WithinThreshold(Coord(lat), steps[currentStepIndex + 1].coord)
           /\ LocationResolveWith(i, TRUE, lat))
          => (/\ currentStepIndex' = currentStepIndex + 1
              /\ isNavigating'
              /\ HasCamera(out', steps[currentStepIndex + 2].coord))]_vars

\* C5: a poll tick whose fix is within 30 m of the last step while navigating
\* ends navigation: not navigating, no route, no steps, index 0, no poll timer.
C5_TickArrives ==
    [][\A i \in 1..Len(locationRequests), lat \in 0..MaxLat :
          (/\ variant = "A" /\ isMounted /\ isNavigating
           /\ locationRequests[i].who = "tick"
           /\ Len(steps) > 0 /\ currentStepIndex = Len(steps) - 1
           /\ WithinThreshold(Coord(lat), steps[currentStepIndex + 1].coord)
           /\ LocationResolveWith(i, TRUE, lat))
          => (/\ ~isNavigating' /\ route' = Null /\ steps' = <<>>
              /\ currentStepIndex' = 0 /\ intervals' = <<>>)]_vars

ReactState ==
    <<currentLocation, destination, route, steps, currentStepIndex, routeInfo,
      query, suggestions, isNavigating, loading, isMapInteracting, currentHeading>>

NoCommand(o) ==
    \A j \in 1..Len(o) : o[j].op \notin {"setCamera", "fitBounds", "fetchRoute"}

\* C6: pressing Stop on the mounted screen leaves the screen idle: not navigating,
\* index 0, no route, no steps, every distance/duration field null and no poll
\* timer; currentLocation and destination keep their values.
C6_StopClears ==
    [][StopPress =>
          (/\ ~isNavigating' /\ currentStepIndex' = 0 /\ route' = Null
           /\ steps' = <<>> /\ routeInfo' = NullInfo /\ intervals' = <<>>
           /\ currentLocation' = currentLocation
           /\ destination' = destination)]_vars

C6_Witness ==
    /\ last.op = "StopPress" /\ ~isNavigating /\ steps = <<>>
    /\ currentLocation # Null /\ destination # Null /\ isMounted

\* C7: once navigation was stopped, the resolution of a poll tick's location
\* request that was in flight changes no trip state and issues no route fetch
\* and no camera command.
C7_StaleTickNoOp ==
    [][\A i \in 1..Len(locationRequests), ok \in BOOLEAN, lat \in 0..MaxLat :
          (/\ isMounted /\ ~isNavigating
           /\ locationRequests[i].who = "tick"
           /\ LocationResolveWith(i, ok, lat))
          => (/\ UNCHANGED <<currentLocation, currentHeading, route, steps,
                             currentStepIndex, routeInfo, isNavigating>>
              /\ NoCommand(out'))]_vars

\* C8: after the unmount no request that settles changes a state variable or
\* commands the camera, and the poll timer is cleared and stays cleared.
C8_UnmountedInert ==
    [][/\ ~isMounted' => intervals' = <<>>
       /\ ~isMounted =>
            (/\ UNCHANGED ReactState
             /\ \A j \in 1..Len(out') : out'[j].op \notin {"setCamera", "fitBounds"})]_vars

C8_Witness ==
    /\ ~isMounted /\ last.op = "RouteResolve" /\ last.ok /\ out = <<>>
    /\ variant = "A"

\* C9: in MapScreen.tsx at most one device location request is outstanding; a
\* call made while one is pending is dropped.
C9_OneLocationRequest ==
    variant = "A" => Len(locationRequests) <= 1

\* Stop was pressed while a tick's request was pending: its final fix was dropped.
C9_Witness ==
    /\ variant = "A" /\ last.op = "StopPress"
    /\ Len(locationRequests) = 1 /\ locationRequests[1].who = "tick"

\* C10: at most one repeating poll timer is active, and none while not
\* navigating or after the unmount.
C10_OneTimer ==
    /\ Len(intervals) <= 1
    /\ (~isNavigating \/ ~isMounted) => intervals = <<>>

\* the tracking effect ran again while a timer was active
C10_Witness ==
    /\ Len(intervals) = 1 /\ isNavigating
    /\ last.op \in {"LocationResolve", "TouchStart", "RouteResolve"} /\ last.ok

HasFetch(o, start, end) ==
    \E j \in 1..Len(o) : o[j].op = "fetchRoute" /\ o[j].a = start /\ o[j].b = end

\* C11: a press of Start while currentLocation or destination is null changes
\* nothing: isNavigating stays false, index, route and steps keep their values,
\* no poll timer is started and no camera command or route fetch is issued.
C11_StartWithoutFixIsNoOp ==
    [][(StartPress /\ (currentLocation = Null \/ destination = Null))
        => (/\ ~isNavigating'
            /\ UNCHANGED <<currentStepIndex, route, steps, intervals, currentLocation,
                           destination, routeInfo>>
            /\ NoCommand(out'))]_vars

C11_Witness ==
    /\ last.op = "StartPress" /\ ~isNavigating /\ currentLocation = Null
    /\ destination # Null /\ isMounted

\* C12: a press of Start with a known location, a destination and an attached
\* camera sets isNavigating and index 0, and after the effects of that render
\* exactly one poll timer is active.
C12_StartStartsOneTimer ==
    [][(StartPress /\ currentLocation # Null /\ destination # Null /\ cameraRef)
        => (isNavigating' /\ currentStepIndex' = 0 /\ Len(intervals') = 1)]_vars

C12_Witness ==
    /\ last.op = "StartPress" /\ isNavigating /\ Len(intervals) = 1
    /\ currentStepIndex = 0

\* C13: every successful press of Start issues a route fetch from
\* currentLocation to destination.
C13_StartFetchesRoute ==
    [][(StartPress /\ isNavigating')
        => HasFetch(out', currentLocation, destination)]_vars

C13_Witness ==
    /\ last.op = "StartPress" /\ isNavigating /\ variant = "A"
    /\ HasFetch(out, currentLocation, destination)

\* the first route fetch a handler issued: the one of the handler itself, the
\* effects of the following render come after it
FirstFetch(o) ==
    o[CHOOSE j \in 1..Len(o) :
        o[j].op = "fetchRoute" /\ \A k \in 1..(j - 1) : o[k].op # "fetchRoute"]

HasFix(o) == \E j \in 1..Len(o) : o[j].op = "getCurrentPosition"

TripState ==
    <<currentLocation, currentHeading, route, steps, currentStepIndex, routeInfo,
      isNavigating>>

\* C14: when a poll tick advances the step, the re-route it issues starts at the
\* location that tick obtained and ends at the new active step's maneuver.
C14_RerouteFromTickFix ==
    [][\A i \in 1..Len(locationRequests), lat \in 0..MaxLat :
          (/\ variant = "A" /\ isMounted /\ isNavigating
           /\ locationRequests[i].who = "tick"
           /\ LocationResolveWith(i, TRUE, lat)
           /\ isNavigating' /\ isMounted'
           /\ currentStepIndex' = currentStepIndex + 1
           /\ currentStepIndex' < Len(steps'))
          => (/\ \E j \in 1..Len(out') : out'[j].op = "fetchRoute"
              /\ FirstFetch(out').a = Coord(lat)
              /\ FirstFetch(out').b = steps'[currentStepIndex' + 1].coord)]_vars

\* C15: every stop of navigation in MapScreen.tsx, by the Stop button or by
\* arrival, issues a final device location request, and its result becomes
\* currentLocation and the camera center at zoom 16.
C15_StopIssuesFinalFix ==
    [][/\ (variant = "A" /\ isMounted /\ isNavigating /\ ~isNavigating' /\ isMounted')
            => HasFix(out')
       /\ \A i \in 1..Len(locationRequests), lat \in 0..MaxLat :
            (/\ variant = "A" /\ isMounted /\ locationRequests[i].who = "stop"
             /\ LocationResolveWith(i, TRUE, lat))
            => (/\ currentLocation' = Coord(lat)
                /\ \E j \in 1..Len(out') :
                      /\ out'[j].op = "setCamera" /\ out'[j].a = Coord(lat)
                      /\ out'[j].c = StopZoomA)]_vars

\* C16: after a poll tick is processed with a non-empty step list and active
\* index i, the displayed remaining distance and duration are those of the sum
\* over steps i .. last.
C16_RemainingIsSuffixSum ==
    [][\A i \in 1..Len(locationRequests), lat \in 0..MaxLat :
          (/\ variant = "A" /\ isMounted /\ isNavigating /\ cameraRef
           /\ locationRequests[i].who = "tick"
           /\ Len(steps) > 0 /\ currentStepIndex < Len(steps)
           /\ LocationResolveWith(i, TRUE, lat)
           /\ isNavigating' /\ isMounted')
          => (/\ routeInfo'.remainingDistance
                    = toFixed1(SumDistance(steps, currentStepIndex + 1))
              /\ routeInfo'.remainingDuration
                    = formatDuration(SumDuration(steps, currentStepIndex + 1)))]_vars

\* C17: a route fetch that fails, or whose route object lacks legs, leaves
\* route, steps, index and every distance/duration field as they were.
C17_FailedFetchChangesNothing ==
    [][\A req \in BagToSet(routeRequests), kind \in {"fail", "nolegs"} :
          RouteResolveWith(req, kind, <<StepAt(1)>>)
          => UNCHANGED <<route, steps, currentStepIndex, routeInfo>>]_vars

\* C18: a poll tick whose location request fails or is dropped by the in-flight
\* guard is skipped: the trip state is unchanged, no camera command is issued
\* and the timer stays.
C18_FailedTickSkipped ==
    [][/\ \A i \in 1..Len(locationRequests) :
            (locationRequests[i].who = "tick" /\ LocationResolveWith(i, FALSE, 0))
            => (UNCHANGED TripState /\ UNCHANGED intervals /\ NoCommand(out'))
       /\ (TimerFire /\ variant = "A" /\ isLocationRequestPending)
            => (/\ UNCHANGED TripState /\ UNCHANGED intervals
                /\ UNCHANGED locationRequests /\ out' = <<>>)]_vars

C18_Witness ==
    /\ last = Ev("LocationResolve", "tick", FALSE)
    /\ isNavigating /\ Len(intervals) = 1 /\ isMounted

\* C19: selecting a suggestion sets destination to its coordinate and empties
\* the list; the outcome depends on the item alone and nothing else of the
\* state changes, so selecting the same item again gives the same state.
C19_SelectSuggestion ==
    [][\A k \in 1..Len(suggestions) :
          PressSuggestionWith(k)
          => (/\ destination' = PlaceCoord(suggestions[k])
              /\ query' = PlaceName(suggestions[k])
              /\ suggestions' = <<>>
              /\ UNCHANGED <<currentLocation, currentHeading, route, steps,
                             currentStepIndex, routeInfo, isNavigating, loading,
                             isMapInteracting>>)]_vars

\* the item that was already the destination has been selected a second time
C19_Witness ==
    /\ last = Ev("PressSuggestion", "again", TRUE)
    /\ suggestions = <<>> /\ destination # Null

\* C20: fetchSuggestions with empty input empties the suggestion list in the
\* same call and issues no geocoding request.
C20_EmptyInputClears ==
    [][ChangeTextWith("")
        => (/\ suggestions' = <<>>
            /\ suggestionRequests' = suggestionRequests
            /\ \A j \in 1..Len(out') : out'[j].op # "geocode")]_vars

\* the search text was emptied while a suggestion list was showing
C20_Witness ==
    last = Ev("ChangeText", "", TRUE) /\ suggestions = <<>> /\ query = ""

NoCamera(o) == \A j \in 1..Len(o) : o[j].op # "setCamera"

\* C21: in MapScreen.tsx a poll tick that fires while the map is being dragged
\* is skipped entirely: no device location request, no change of location,
\* heading, index or remaining fields, no camera command.
C21_DragSkipsTick ==
    [][(TimerFire /\ variant = "A" /\ isMapInteracting)
        => (/\ out' = <<>>
            /\ UNCHANGED <<locationRequests, isLocationRequestPending>>
            /\ UNCHANGED ReactState)]_vars

C21_Witness ==
    /\ last = Ev("TimerFire", "tick", FALSE) /\ isMapInteracting /\ isNavigating
    /\ ~isLocationRequestPending /\ Len(intervals) = 1

\* C22 as stated: a tick that fires during a drag still fetches the device
\* location.
C22_DragStillPolls ==
    [][(TimerFire /\ variant = "A" /\ isMapInteracting /\ isNavigating
        /\ ~isLocationRequestPending)
        => HasFix(out')]_vars

\* C22 amended: a tick that fires during a drag asks the device for nothing
\* and leaves currentLocation and the step index alone, while the poll timer
\* stays active for the ticks after the drag.
C22_DragSuppressesPoll ==
    [][(TimerFire /\ variant = "A" /\ isMapInteracting /\ isNavigating)
        => (/\ ~HasFix(out')
            /\ UNCHANGED <<currentLocation, currentStepIndex>>
            /\ Len(intervals') = 1 /\ intervals' = intervals)]_vars

C22_Witness ==
    /\ last = Ev("TimerFire", "tick", FALSE) /\ isMapInteracting /\ isNavigating
    /\ locationRequests = <<>> /\ currentLocation # Null /\ steps # <<>>

\* C23: no camera-follow command is issued while the map is being dragged,
\* also not by a tick whose location request was in flight when the drag began.
C23_NoFollowDuringDrag ==
    [][\A i \in 1..Len(locationRequests), ok \in BOOLEAN, lat \in 0..MaxLat :
          (/\ variant = "A" /\ isMapInteracting
           /\ locationRequests[i].who = "tick"
           /\ LocationResolveWith(i, ok, lat))
          => NoCamera(out')]_vars

\* C24: no fitBounds command is issued while isNavigating is true.
C24_NoFitBoundsWhileNavigating ==
    [][\A req \in BagToSet(routeRequests), ss \in RouteCatalog :
          (isNavigating /\ RouteResolveWith(req, "ok", ss))
          => \A j \in 1..Len(out') : out'[j].op # "fitBounds"]_vars

HHMM(field) == <<10 * field[1][1] + field[1][2], 10 * field[2][1] + field[2][2]>>

\* C25: a formatted duration is HH:MM with two digits each and MM between 00
\* and 59.
C25_MinutesBelowSixty ==
    (variant = "A" /\ routeInfo.duration # Null)
    => (/\ Len(routeInfo.duration[1]) = 2 /\ Len(routeInfo.duration[2]) = 2
        /\ HHMM(routeInfo.duration)[2] <= 59)

\* C26: a tick whose fix is 30 m or more from the active step's maneuver leaves
\* index, steps, route and isNavigating alone and issues no route fetch.
C26_FarTickKeepsTrip ==
    [][\A i \in 1..Len(locationRequests), lat \in 0..MaxLat :
          (/\ isMounted /\ isNavigating /\ locationRequests[i].who = "tick"
           /\ Len(steps) > 0 /\ currentStepIndex < Len(steps)
           /\ ~WithinThreshold(Coord(lat), steps[currentStepIndex + 1].coord)
           /\ LocationResolveWith(i, TRUE, lat))
          => (/\ UNCHANGED <<currentStepIndex, steps, route, isNavigating>>
              /\ \A j \in 1..Len(out') : out'[j].op # "fetchRoute")]_vars

\* C27: in part_000 a tick within 30 m of the active step's maneuver advances
\* the index by 1, or stops navigation at the last step.
C27_TickSeesCurrentSteps ==
    [][\A i \in 1..Len(locationRequests), lat \in 0..MaxLat :
          (/\ variant = "B" /\ isMounted /\ isNavigating
           /\ locationRequests[i].who = "tick"
           /\ Len(steps) > 0 /\ currentStepIndex < Len(steps)
           /\ WithinThreshold(Coord(lat), steps[currentStepIndex + 1].coord)
           /\ LocationResolveWith(i, TRUE, lat))
          => IF currentStepIndex < Len(steps) - 1
             THEN currentStepIndex' = currentStepIndex + 1
             ELSE ~isNavigating']_vars

\* C30: while isNavigating is true the destination never changes.
C30_DestinationFixedWhileNavigating ==
    [][isNavigating => destination' = destination]_vars

\* C29: in MapScreen.tsx the index only changes by a reset to 0 or by an
\* increase of exactly 1 over the value it has when the change is applied.
C29_IndexStepsByOne ==
    [][variant = "A"
        => \/ currentStepIndex' = currentStepIndex
           \/ currentStepIndex' = 0
           \/ currentStepIndex' = currentStepIndex + 1]_vars

\* C28: in MapScreen.tsx, navigation with a non-empty step list whose ticks
\* all report a fix within 30 m of the then-active maneuver eventually
\* reaches Idle, under fair timer firing and fair resolution of requests.
C28_EventuallyIdle ==
    (variant = "A" /\ isNavigating /\ Len(steps) > 0) ~> ~isNavigating

\* C31: in MapScreen.tsx, once navigation has been stopped, route and steps
\* stay empty and no route fetch or fitBounds is issued until the user selects
\* a destination or starts navigation again: neither by the stop itself nor by
\* the step that follows it.
C31_StoppedStaysEmpty ==
    [][(/\ variant = "A"
        /\ \/ last'.op = "StopPress"
           \/ last.op = "StopPress" /\ last'.op \notin {"PressSuggestion", "StartPress"})
        => (/\ route' = Null /\ steps' = <<>>
            /\ \A j \in 1..Len(out') : out'[j].op \notin {"fetchRoute", "fitBounds"})]_vars
====
